---- MODULE Spec2Model ----
(***************************************************************************)
(* The IR pulse decoder of raw_ir_decoder/analyze_ir_pulses.py: the        *)
(* fundamental-period estimator, the binarizer, and the IRCommand class    *)
(* with its text and timing conversions; the programs around it, which     *)
(* collect named buttons into a catalogue file                             *)
(* (capture_ir_remote_control.py) and load it again (get_timings.py); and  *)
(* the lock file of serial_monitor.py.  Exceptions are modelled as the     *)
(* "status" of a call's outcome; "ok" is a normal return.                  *)
(***************************************************************************)
EXTENDS Integers, Sequences, FiniteSets, TLC

VARIABLES
    timings,   \* the list of pulse lengths [usec] last captured or generated
    s,         \* the text last produced or read (a sequence of characters)
    command,   \* the IRCommand instance held by the caller, or NoCommand
    ret,       \* the outcome of the last call
    calls,     \* the calls of the capture program so far, with their outcomes
    pc,        \* where the capture program is
    printed,   \* what the capture program has printed for the user
    outf,      \* the text of the catalogue file
    buttons,   \* the (name, command) pairs registered by the capture program
    catalogue, \* the outcome of loading the catalogue file
    lockfile,  \* the lock file of the serial port, as the file system has it
    proc       \* the processes of serial_monitor.py: position and locals

\* The state outside the decoder.
env == <<calls, pc, printed, outf, buttons, catalogue>>

\* The state of the serial port's lock.
locks == <<lockfile, proc>>

vars == <<timings, s, command, ret, calls, pc, printed, outf, buttons,
          catalogue, lockfile, proc>>

-----------------------------------------------------------------------------
(* Program constants *)

PulseGroupThreshold == 200

MaxPulseLength == 15000

\* Python's __debug__: the scripts run under "python2" without -O, so every
\* assert statement is executed.
\* A variant for a run under "python2 -O", which strips the asserts.
asserts_stripped == FALSE

asserts_enabled == TRUE

-----------------------------------------------------------------------------
(* Python helpers *)

\* int(round(num / float(den))) for num >= 0, den > 0: Python 2 rounds half
\* away from zero.
round(num, den) == (2 * num + den) \div (2 * den)

RECURSIVE sum(_)
sum(xs) == IF xs = <<>> THEN 0 ELSE Head(xs) + sum(Tail(xs))

remove_at(xs, i) == SubSeq(xs, 1, i - 1) \o SubSeq(xs, i + 1, Len(xs))

RECURSIVE sorted(_)
sorted(xs) ==
    IF xs = <<>> THEN <<>>
    ELSE LET i == CHOOSE i \in 1..Len(xs) : \A j \in 1..Len(xs) : xs[i] <= xs[j]
         IN  <<xs[i]>> \o sorted(remove_at(xs, i))

\* [x] * n
RECURSIVE repeat(_, _)
repeat(x, n) == IF n <= 0 THEN <<>> ELSE <<x>> \o repeat(x, n - 1)

-----------------------------------------------------------------------------
(* find_fundamental_period *)

\* The grouping loop: groups pulses within PulseGroupThreshold of the group's
\* first pulse f.  groups[-1] of an empty list raises IndexError.
RECURSIVE group_pulses(_, _, _, _)
group_pulses(ps, i, f, groups) ==
    IF i > Len(ps) THEN [status |-> "ok", groups |-> groups]
    ELSE LET p == ps[i] IN
         IF p > MaxPulseLength THEN [status |-> "ok", groups |-> groups]
         ELSE IF p <= f + PulseGroupThreshold
         THEN IF groups = <<>>
              THEN [status |-> "IndexError", groups |-> groups]
              ELSE group_pulses(ps, i + 1, f,
                       [groups EXCEPT ![Len(groups)] = Append(@, p)])
         ELSE group_pulses(ps, i + 1, p, Append(groups, <<p>>))

\* (min, avg, max) of a group; avg kept exact as total / count.
group_stats(group) ==
    [minp |-> group[1], total |-> sum(group), count |-> Len(group),
     maxp |-> group[Len(group)]]

\* The verification loop over gstats: the first failed assertion, or "ok".
RECURSIVE verify_groups(_, _, _)
verify_groups(gstats, i, fp) ==
    IF i > Len(gstats) THEN "ok"
    ELSE IF fp = 0 THEN "ZeroDivisionError"
    ELSE LET g == gstats[i]
             ravg == round(g.total, g.count * fp)
         IN  IF asserts_enabled /\ ~(g.minp >= ravg * fp - PulseGroupThreshold)
             THEN "too_low"
             ELSE IF asserts_enabled
                     /\ ~(g.maxp <= ravg * fp + PulseGroupThreshold)
             THEN "too_high"
             ELSE verify_groups(gstats, i + 1, fp)

\* The ratio assertion: len(groups) <= len(timings) / 5 (integer division).
\* A variant with an exclusive comparison.
ratio_ok_strict(ngroups, npulses) == ngroups < npulses \div 5

ratio_ok(ngroups, npulses) == ngroups <= npulses \div 5

find_fundamental_period(ts) ==
    LET grouped == group_pulses(sorted(ts), 1, 0, <<>>)
        groups == grouped.groups
        gstats == [i \in 1..Len(groups) |-> group_stats(groups[i])]
        fp == round(gstats[1].total, gstats[1].count)
        fail(st) == [status |-> st, fp |-> 0]
    IN  IF grouped.status # "ok" THEN fail("IndexError")
        ELSE IF asserts_enabled /\ ~ratio_ok(Len(groups), Len(ts))
             THEN fail("ratio")
        ELSE IF asserts_enabled /\ \E i \in 1..Len(gstats) :
                    ~(gstats[i].minp * gstats[i].count <= gstats[i].total
                      /\ gstats[i].total <= gstats[i].maxp * gstats[i].count)
             THEN fail("avg")
        ELSE IF Len(groups) = 0 THEN fail("IndexError")
        ELSE IF asserts_enabled /\ fp = 0 THEN fail("fp_zero")
        ELSE LET v == verify_groups(gstats, 1, fp)
             IN  IF v # "ok" THEN fail(v) ELSE [status |-> "ok", fp |-> fp]

-----------------------------------------------------------------------------
(* binarify_signal *)

\* The tolerance assertions on one pulse t counted as p periods.
\* A variant with the band one usec too wide.
pulse_check_wide(t, p, fp) ==
    IF ~(t >= p * fp - (PulseGroupThreshold + 1)) THEN "tol_low"
    ELSE IF ~(t <= p * fp + (PulseGroupThreshold + 1)) THEN "tol_high"
    ELSE "ok"

pulse_check(t, p, fp) ==
    IF asserts_enabled /\ ~(t >= p * fp - PulseGroupThreshold) THEN "tol_low"
    ELSE IF asserts_enabled /\ ~(t <= p * fp + PulseGroupThreshold)
    THEN "tol_high"
    ELSE "ok"

\* The loop over the timings; acc = [ret, bits, bit, interval].
RECURSIVE binarify_loop(_, _, _, _)
binarify_loop(fp, ts, i, acc) ==
    IF i > Len(ts) THEN [status |-> "ok", acc |-> acc]
    ELSE LET t == ts[i]
             bit == (acc.bit + 1) % 2
         IN  IF t > MaxPulseLength
             THEN binarify_loop(fp, ts, i + 1,
                      [ret |-> Append(acc.ret, acc.bits), bits |-> <<>>,
                       bit |-> bit,
                       interval |-> IF acc.interval = 0 \/ t < acc.interval
                                    THEN t ELSE acc.interval])
             ELSE IF fp = 0 THEN [status |-> "ZeroDivisionError", acc |-> acc]
             ELSE LET p == round(t, fp)
                      chk == pulse_check(t, p, fp)
                  IN  IF chk # "ok" THEN [status |-> chk, acc |-> acc]
                      ELSE binarify_loop(fp, ts, i + 1,
                               [acc EXCEPT !.bits = @ \o repeat(bit, p),
                                           !.bit = bit])

\* The trailing flush: "if bits: ret.append(bits)".
\* A variant that appends the trailing bitstream unconditionally.
flush_always(acc) == Append(acc.ret, acc.bits)

flush(acc) == IF acc.bits # <<>> THEN Append(acc.ret, acc.bits) ELSE acc.ret

binarify_signal(fp, ts) ==
    LET looped == binarify_loop(fp, ts, 1,
                      [ret |-> <<>>, bits |-> <<>>, bit |-> 0, interval |-> 0])
        r == flush(looped.acc)
        fail(st) == [status |-> st, ret |-> <<>>, interval |-> 0]
    IN  IF looped.status # "ok" THEN fail(looped.status)
        ELSE IF asserts_enabled /\ r = <<>> THEN fail("no_bitstream")
        ELSE IF asserts_enabled /\ \E k \in 1..Len(r) : r[k] = <<>>
             THEN fail("empty_bitstream")
        ELSE [status |-> "ok", ret |-> r, interval |-> looped.acc.interval]

-----------------------------------------------------------------------------
(* class IRCommand *)

NoCommand == [fp |-> 0, bits |-> <<>>, interval |-> 0, repeats |-> 0]

\* The boundary assertion of __init__.
\* A variant that checks the first bit only.
boundary_ok_first(bits) == bits[1] = 1

boundary_ok(bits) == bits[1] = 1 /\ bits[Len(bits)] = 1

\* IRCommand.__init__: bits[0] of an empty list raises IndexError.
IRCommand_init(fp, bits, interval, repeats) ==
    IF asserts_enabled /\ bits = <<>>
    THEN [status |-> "IndexError", cmd |-> NoCommand]
    ELSE IF asserts_enabled /\ ~boundary_ok(bits)
    THEN [status |-> "boundary", cmd |-> NoCommand]
    ELSE [status |-> "ok",
          cmd |-> [fp |-> fp, bits |-> bits, interval |-> interval,
                   repeats |-> repeats]]

\* The repeat check of from_timings: "for bits in bitstreams: assert bits == bitstream".
same_bitstream(bits, bitstream) == bits = bitstream

\* The repeats argument of from_timings: len(bitstreams) + 1 after pop(0).
\* A variant that forgets the popped bitstream.
count_repeats_rest(rest) == Len(rest)

\* A variant that adds the repeats of the command decoded before.
count_repeats_total(rest) == Len(rest) + 1 + ret.cmd.repeats

count_repeats(rest) == Len(rest) + 1

IRCommand_from_timings(ts) ==
    LET found == find_fundamental_period(ts)
        bin == binarify_signal(found.fp, ts)
        bitstream == Head(bin.ret)
        rest == Tail(bin.ret)
        fail(st) == [status |-> st, cmd |-> NoCommand]
    IN  IF found.status # "ok" THEN fail(found.status)
        ELSE IF bin.status # "ok" THEN fail(bin.status)
        ELSE IF bin.ret = <<>> THEN fail("IndexError")
        ELSE IF asserts_enabled
                /\ \E k \in 1..Len(rest) : ~same_bitstream(rest[k], bitstream)
             THEN fail("repeat")
        ELSE IRCommand_init(found.fp, bitstream, bin.interval,
                            count_repeats(rest))

\* The loop of IRCommand.timings; acc = [ret, prev, t].
RECURSIVE timings_loop(_, _, _, _)
timings_loop(bits, fp, i, acc) ==
    IF i > Len(bits) THEN acc
    ELSE IF bits[i] = acc.prev
    THEN timings_loop(bits, fp, i + 1, [acc EXCEPT !.t = @ + fp])
    ELSE timings_loop(bits, fp, i + 1,
             [ret |-> Append(acc.ret, acc.t), prev |-> bits[i], t |-> fp])

\* The tail of IRCommand.timings: the last pulse and the interval.
\* A variant that forgets the interval.
timings_tail_no_interval(acc, interval) == Append(acc.ret, acc.t)

timings_tail(acc, interval) == Append(Append(acc.ret, acc.t), interval)

IRCommand_timings(c) ==
    LET acc == timings_loop(c.bits, c.fp, 1, [ret |-> <<>>, prev |-> 1, t |-> 0])
    IN  IF asserts_enabled /\ acc.prev # 1
        THEN [status |-> "AssertionError", ret |-> <<>>]
        ELSE [status |-> "ok", ret |-> timings_tail(acc, c.interval)]

-----------------------------------------------------------------------------
(* Text: a Python str is a sequence of one-character strings *)

Digits == <<"0", "1", "2", "3", "4", "5", "6", "7", "8", "9">>

Whitespace == {" ", "\t", "\n"}

is_digit(ch) == \E d \in 1..10 : Digits[d] = ch

digit_value(ch) == (CHOOSE d \in 1..10 : Digits[d] = ch) - 1

\* "%u" % n and str(n) for an int n: decimal, with a sign when negative.
RECURSIVE format_nat(_)
format_nat(n) ==
    IF n < 10 THEN <<Digits[n + 1]>>
    ELSE format_nat(n \div 10) \o <<Digits[(n % 10) + 1]>>

format_int(n) == IF n < 0 THEN <<"-">> \o format_nat(-n) ELSE format_nat(n)

RECURSIVE lstrip(_)
lstrip(str) ==
    IF str # <<>> /\ Head(str) \in Whitespace THEN lstrip(Tail(str)) ELSE str

RECURSIVE rstrip(_)
rstrip(str) ==
    IF str # <<>> /\ str[Len(str)] \in Whitespace
    THEN rstrip(SubSeq(str, 1, Len(str) - 1)) ELSE str

strip(str) == rstrip(lstrip(str))

startswith(str, prefix) ==
    Len(str) >= Len(prefix) /\ SubSeq(str, 1, Len(prefix)) = prefix

endswith(str, suffix) ==
    Len(str) >= Len(suffix)
    /\ SubSeq(str, Len(str) - Len(suffix) + 1, Len(str)) = suffix

\* str.split(sep) for a one-character sep: the list of the parts.
RECURSIVE split_from(_, _, _, _)
split_from(str, sep, i, part) ==
    IF i > Len(str) THEN <<part>>
    ELSE IF str[i] = sep THEN <<part>> \o split_from(str, sep, i + 1, <<>>)
    ELSE split_from(str, sep, i + 1, Append(part, str[i]))

split(str, sep) == split_from(str, sep, 1, <<>>)

RECURSIVE digits_value(_, _)
digits_value(ds, acc) ==
    IF ds = <<>> THEN acc
    ELSE digits_value(Tail(ds), 10 * acc + digit_value(Head(ds)))

\* int(str): surrounding whitespace and one sign are accepted; anything but
\* a non-empty run of digits after that raises ValueError.
\* A variant that skips what is no digit, and never fails.
int_lenient(str) == [ok |-> TRUE, val |-> digits_value(SelectSeq(str, is_digit), 0)]

int(str) ==
    LET body == strip(str)
        signed == body # <<>> /\ Head(body) \in {"-", "+"}
        ds == IF signed THEN Tail(body) ELSE body
        v == digits_value(ds, 0)
    IN  IF ds = <<>> \/ \E i \in 1..Len(ds) : ~is_digit(ds[i])
        THEN [ok |-> FALSE, val |-> 0]
        ELSE [ok |-> TRUE,
              val |-> IF signed /\ Head(body) = "-" THEN -v ELSE v]

\* map(int, list(bits)): int of every single character.
bits_ok(str) == \A i \in 1..Len(str) : is_digit(str[i])

bits_value(str) == [i \in 1..Len(str) |-> digit_value(str[i])]

RECURSIVE join(_)
join(parts) == IF parts = <<>> THEN <<>> ELSE Head(parts) \o join(Tail(parts))

\* IRCommand.bitstream: "".join([str(b) for b in self.bits])
IRCommand_bitstream(c) == join([i \in 1..Len(c.bits) |-> format_int(c.bits[i])])

Wrapper == <<"<", "I", "R", "C", "o", "m", "m", "a", "n", "d", ":", " ">>

\* The separator between interval and repeats in __str__'s format string.
\* A variant that writes a slash.
repeats_separator_slash == <<" ", "/", " ">>

repeats_separator == <<" ", "x", " ">>

\* IRCommand.__str__: "<IRCommand: %u/%s/%u x %u>"
IRCommand_str(c) ==
    Wrapper \o format_int(c.fp) \o <<"/">> \o IRCommand_bitstream(c) \o <<"/">>
        \o format_int(c.interval) \o repeats_separator
        \o format_int(c.repeats) \o <<">">>

\* The wrapper assertions of from_string.
\* A variant without them.
wrapper_ok_any(str) == Len(str) >= Len(Wrapper) + 1

wrapper_ok(str) == startswith(str, Wrapper) /\ endswith(str, <<">">>)

IRCommand_from_string(text) ==
    LET str == strip(text)
        parts == split(SubSeq(str, Len(Wrapper) + 1, Len(str) - 1), "x")
        fields == split(strip(parts[1]), "/")
        fp == int(fields[1])
        pause == int(strip(fields[3]))
        repeats == int(strip(parts[2]))
        fail(st) == [status |-> st, cmd |-> NoCommand]
    IN  IF asserts_enabled /\ ~wrapper_ok(str) THEN fail("AssertionError")
        ELSE IF Len(parts) # 2 THEN fail("ValueError")
        ELSE IF Len(fields) # 3 THEN fail("ValueError")
        ELSE IF ~fp.ok THEN fail("ValueError")
        ELSE IF ~bits_ok(fields[2]) THEN fail("ValueError")
        ELSE IF ~pause.ok THEN fail("ValueError")
        ELSE IF ~repeats.ok THEN fail("ValueError")
        ELSE IRCommand_init(fp.val, bits_value(fields[2]), pause.val,
                            repeats.val)

-----------------------------------------------------------------------------
(* Bounds and input sets *)

MaxBits == 10

MaxRepeats == 2

MaxShortLen == 5

MaxBurstLen == 5

MaxMult == 2

MaxBinLen == 4

SeqsUpTo(S, n) == UNION {[1..k -> S] : k \in 0..n}

\* Arguments of the IRCommand constructor.
BitSeqs == SeqsUpTo({0, 1}, MaxBits)

CommandFPs == {PulseGroupThreshold, PulseGroupThreshold + 1, 900, 8000}

Intervals == {MaxPulseLength, MaxPulseLength + 1, 20000}

\* Captures handed to find_fundamental_period and from_timings: all short
\* ones over a few pulse lengths, and captures of two or three bursts in
\* which one pulse of the second burst may be off.
ShortPulses == {100, 900, 1101, 20000}

ShortCaptures == SeqsUpTo(ShortPulses, MaxShortLen)

Bursts == SeqsUpTo({900, 1800}, MaxBurstLen)

OffPulses == {699, 700, 1100, 1101, 1300, 1400, 1800, 2700}

Gaps == {16000, 20000}

Perturbed(b) == {b} \cup {[b EXCEPT ![i] = v] : i \in 1..Len(b), v \in OffPulses}

Tails(b) == {<<>>, <<20000>>, <<16000>> \o b}

BurstCaptures ==
    UNION {{b \o <<g>> \o b2 \o tl : b2 \in Perturbed(b), g \in Gaps, tl \in Tails(b)}
           : b \in Bursts}

\* Captures of five equal pulses around twice the grouping threshold.
LowCaptures ==
    {repeat(t, 5) : t \in {PulseGroupThreshold + 1, 300,
                           2 * PulseGroupThreshold - 1, 2 * PulseGroupThreshold}}

Captures == ShortCaptures \cup BurstCaptures \cup LowCaptures

\* Arguments of direct calls of binarify_signal: a pulse at, or one usec
\* past, the edge of the tolerance band of a multiple of fp, alone, before a
\* gap or on both sides of one; and all short captures over a tiny pulse, a pulse and a gap.
BinFPs == {300, 400, 401, 402, 900}

Deltas == {-(PulseGroupThreshold + 1), -PulseGroupThreshold, 0,
           PulseGroupThreshold, PulseGroupThreshold + 1}

EdgePulses == {m * fp + d : m \in 1..MaxMult, fp \in BinFPs, d \in Deltas}

EdgeCaptures ==
    {<<t>> : t \in EdgePulses} \cup {<<t, 20000>> : t \in EdgePulses}
        \cup {<<t, 20000, t>> : t \in EdgePulses}

GapCaptures == SeqsUpTo({100, 900, 20000}, MaxBinLen)

BinCaptures == EdgeCaptures \cup GapCaptures

\* Lines of a catalogue file: commands written without the wrapper, as
\* "<fp>/<bits>/<interval>x<repeats>", and with it, spaced or not.
TextCommands ==
    {[fp |-> 900, bits |-> <<1, 0, 1, 0, 1>>, interval |-> 20000, repeats |-> 2],
     [fp |-> 201, bits |-> <<1>>, interval |-> 15001, repeats |-> 1],
     [fp |-> 900, bits |-> <<0, 1, 1>>, interval |-> 20000, repeats |-> 1],
     [fp |-> 900, bits |-> <<1, 1, 0>>, interval |-> 20000, repeats |-> 1]}

BareText(c) ==
    format_int(c.fp) \o <<"/">> \o IRCommand_bitstream(c) \o <<"/">>
        \o format_int(c.interval) \o <<"x">> \o format_int(c.repeats)

\* Lines damaged in one place: a character lost, replaced, or inserted.
DamageChars == {"/", "x", "a", " ", "-"}

insert_at(str, i, ch) == SubSeq(str, 1, i - 1) \o <<ch>> \o SubSeq(str, i, Len(str))

Damaged(str) ==
    {remove_at(str, i) : i \in 1..Len(str)}
        \cup {[str EXCEPT ![i] = ch] : i \in 1..Len(str), ch \in DamageChars}
        \cup {insert_at(str, i, ch) : i \in 1..(Len(str) + 1), ch \in DamageChars}

DamagedTexts ==
    UNION {Damaged(IRCommand_str(c)) :
               c \in {[fp |-> 900, bits |-> <<1, 0, 1>>, interval |-> 20000,
                       repeats |-> 2],
                      [fp |-> 201, bits |-> <<1>>, interval |-> 15001,
                       repeats |-> 1]}}

Texts ==
    {BareText(c) : c \in TextCommands}
        \cup {Wrapper \o BareText(c) \o <<">">> : c \in TextCommands}
        \cup {<<" ">> \o IRCommand_str(c) \o <<"\n">> : c \in TextCommands}
        \cup DamagedTexts

-----------------------------------------------------------------------------
(* The callers: each action is one call; ret records its outcome *)

Ret(op, status, cmd, fp, bitstreams, interval, bits) ==
    [op |-> op, status |-> status, cmd |-> cmd, fp |-> fp,
     bitstreams |-> bitstreams, interval |-> interval, bits |-> bits]

Idle == Ret("idle", "ok", NoCommand, 0, <<>>, 0, <<>>)

\* command = IRCommand(fp, bits, interval, repeats)
New(fp, bits, interval, repeats) ==
    /\ LET r == IRCommand_init(fp, bits, interval, repeats)
       IN  /\ command' = r.cmd
           /\ ret' = Ret("init", r.status, r.cmd, 0, <<>>, 0, bits)
    /\ UNCHANGED <<timings, s>>
    /\ UNCHANGED env
    /\ UNCHANGED locks

\* timings = command.timings()
CallTimings ==
    /\ ret.op = "init"
    /\ ret.status = "ok"
    /\ LET r == IRCommand_timings(command)
       IN  /\ timings' = r.ret
           /\ ret' = Ret("timings", r.status, NoCommand, 0, <<>>, 0, <<>>)
    /\ UNCHANGED <<s, command>>
    /\ UNCHANGED env
    /\ UNCHANGED locks

\* IRCommand.from_timings(timings)
CallFromTimings ==
    /\ ret.op \in {"idle", "timings", "read_timings"}
    /\ LET r == IRCommand_from_timings(timings)
       IN  ret' = Ret("from_timings", r.status, r.cmd, 0, <<>>, 0, <<>>)
    /\ UNCHANGED <<timings, s, command>>
    /\ UNCHANGED env
    /\ UNCHANGED locks

\* find_fundamental_period(timings)
CallFindFundamentalPeriod ==
    /\ ret.op = "idle"
    /\ LET r == find_fundamental_period(timings)
       IN  ret' = Ret("find_fundamental_period", r.status, NoCommand, r.fp,
                      <<>>, 0, <<>>)
    /\ UNCHANGED <<timings, s, command>>
    /\ UNCHANGED env
    /\ UNCHANGED locks

\* binarify_signal(fp, timings)
CallBinarify(fp) ==
    /\ LET r == binarify_signal(fp, timings)
       IN  ret' = Ret("binarify_signal", r.status, NoCommand, fp, r.ret,
                      r.interval, <<>>)
    /\ UNCHANGED <<timings, s, command>>
    /\ UNCHANGED env
    /\ UNCHANGED locks

\* timings = map(int, f.read().split()): a capture read from a log file
ReadTimings(ts) ==
    /\ timings' = ts
    /\ ret' = Ret("read_timings", "ok", NoCommand, 0, <<>>, 0, <<>>)
    /\ UNCHANGED <<s, command>>
    /\ UNCHANGED env
    /\ UNCHANGED locks

\* A line of a catalogue file, after "name:"
ReadText(text) ==
    /\ s' = text
    /\ ret' = Ret("read", "ok", NoCommand, 0, <<>>, 0, <<>>)
    /\ UNCHANGED <<timings, command>>
    /\ UNCHANGED env
    /\ UNCHANGED locks

\* s = str(command)
CallStr ==
    /\ ret.op = "init"
    /\ ret.status = "ok"
    /\ s' = IRCommand_str(command)
    /\ ret' = Ret("str", "ok", NoCommand, 0, <<>>, 0, <<>>)
    /\ UNCHANGED <<timings, command>>
    /\ UNCHANGED env
    /\ UNCHANGED locks

\* IRCommand.from_string(s)
CallFromString ==
    /\ ret.op \in {"str", "read"}
    /\ LET r == IRCommand_from_string(s)
       IN  ret' = Ret("from_string", r.status, r.cmd, 0, <<>>, 0, <<>>)
    /\ UNCHANGED <<timings, s, command>>
    /\ UNCHANGED env
    /\ UNCHANGED locks

-----------------------------------------------------------------------------
(* Specifications *)

NumProcs == 2

Procs == 1..NumProcs

\* No lock file, and no process of serial_monitor.py past its start.
NoFile(ino) == [exists |-> FALSE, pid |-> 0, mode |-> "rw", ino |-> ino]

InitLocks ==
    /\ lockfile = NoFile(0)
    /\ proc = [p \in Procs |-> [pc |-> "main", pid |-> 0, fd |-> 0]]

\* The capture program has not started and no catalogue has been loaded.
InitEnv ==
    /\ calls = <<>>
    /\ pc = "start"
    /\ printed = <<>>
    /\ outf = <<>>
    /\ buttons = <<>>
    /\ catalogue = [status |-> "none", buttons |-> <<>>]

\* The life of a command: construction (directly, from a capture read from a
\* log, or from a line of text), then expansion to timings and decoding of
\* those, or conversion to text and parsing of that.
Init ==
    /\ timings = <<>>
    /\ s = <<>>
    /\ command = NoCommand
    /\ ret = Idle
    /\ InitEnv
    /\ InitLocks

Next ==
    \/ /\ ret.op = "idle"
       /\ \E fp \in CommandFPs, bits \in BitSeqs, interval \in Intervals,
             repeats \in 1..MaxRepeats : New(fp, bits, interval, repeats)
    \/ ret.op = "idle" /\ \E ts \in ShortCaptures : ReadTimings(ts)
    \/ ret.op = "idle" /\ \E text \in Texts : ReadText(text)
    \/ CallTimings
    \/ CallFromTimings
    \/ CallStr
    \/ CallFromString

Spec == Init /\ [][Next]_vars

\* Decoding of a capture.
InitDecode ==
    /\ timings \in Captures
    /\ s = <<>>
    /\ command = NoCommand
    /\ ret = Idle
    /\ InitEnv
    /\ InitLocks

NextDecode ==
    \/ CallFindFundamentalPeriod
    \/ CallFromTimings

SpecDecode == InitDecode /\ [][NextDecode]_vars

\* Direct calls of the binarizer.
InitBinarify ==
    /\ timings \in BinCaptures
    /\ s = <<>>
    /\ command = NoCommand
    /\ ret = Idle
    /\ InitEnv
    /\ InitLocks

NextBinarify == ret.op = "idle" /\ \E fp \in BinFPs : CallBinarify(fp)

SpecBinarify == InitBinarify /\ [][NextBinarify]_vars

-----------------------------------------------------------------------------
(* capture_ir_remote_control.py: collecting named buttons into a catalogue *)

MaxCalls == 6

\* What the serial line delivers to IRPulseReader.read_pulses: a framed
\* capture, a line that is no "Received IR command" line, or a framed line
\* whose pulses do not parse.
SessionCaptures ==
    {<<900, 900, 900, 900, 900, 20000>>, <<900, 900, 900, 900, 900, 16000>>,
     <<900, 900, 20000>>, <<100, 900, 900, 900, 900>>, <<>>}

SerialLines ==
    {[kind |-> "capture", timings |-> ts] : ts \in SessionCaptures}
        \cup {[kind |-> "other", timings |-> <<>>],
              [kind |-> "bad", timings |-> <<>>]}

\* What the user types at "Please name this command: ".
RawNames == {<<"a">>, <<" ", "b", "\n">>, <<"a", ":", "b">>}

\* IRPulseReader.read_pulses: None for a line of another kind, the list of
\* pulses for a framed line, an exception when the frame does not parse.
read_pulses(line) ==
    IF line.kind = "other" THEN [status |-> "ok", timings |-> <<>>]
    ELSE IF line.kind = "bad" THEN [status |-> "ValueError", timings |-> <<>>]
    ELSE [status |-> "ok", timings |-> line.timings]

\* "except Exception": KeyboardInterrupt derives from BaseException only.
is_Exception(e) == e # "KeyboardInterrupt"

\* The exception handler of collect_button: retry, or let e propagate.
\* A variant that retries on everything.
collect_button_except_all(e) == "retry"

collect_button_except(e) ==
    IF ~is_Exception(e) THEN "raise"
    ELSE IF e = "KeyboardInterrupt" THEN "raise"
    ELSE "retry"

Call(op, ts, status, cmd) ==
    [op |-> op, timings |-> ts, status |-> status, cmd |-> cmd]

\* An exception e raised inside the try block of collect_button: reported
\* and retried, or propagated to main, which ends on KeyboardInterrupt.
Raised(e) ==
    IF collect_button_except(e) = "retry"
    THEN /\ printed' = printed \o <<e, "Please retry that button">>
         /\ pc' = "get_timings"
    ELSE /\ printed' = printed
         /\ pc' = "done"

\* collect_button, up to the loop
CollectButton ==
    /\ pc = "collect_button"
    /\ printed' = Append(printed, "Press a button on the remote")
    /\ command' = NoCommand
    /\ pc' = "get_timings"
    /\ UNCHANGED <<timings, s, ret, calls, outf, buttons, catalogue>>
    /\ UNCHANGED locks

\* One round of the loop of get_timings, called from collect_button: an
\* empty result is read again, a capture is handed to from_timings.
ReadPulses(line) ==
    /\ LET r == read_pulses(line)
       IN  /\ calls' = Append(calls, Call("read_pulses", r.timings, r.status,
                                          NoCommand))
           /\ IF r.status # "ok" THEN Raised(r.status) /\ UNCHANGED timings
              ELSE IF r.timings = <<>>
              THEN UNCHANGED <<timings, pc, printed>>
              ELSE /\ timings' = r.timings
                   /\ pc' = "from_timings"
                   /\ UNCHANGED printed
    /\ UNCHANGED <<s, command, ret, outf, buttons, catalogue>>
    /\ UNCHANGED locks

\* command = IRCommand.from_timings(timings), in collect_button
FromTimings ==
    /\ pc = "from_timings"
    /\ LET r == IRCommand_from_timings(timings)
       IN  /\ calls' = Append(calls, Call("from_timings", timings, r.status,
                                          r.cmd))
           /\ ret' = Ret("from_timings", r.status, r.cmd, 0, <<>>, 0, <<>>)
           /\ IF r.status = "ok"
              THEN /\ command' = r.cmd
                   /\ printed' = Append(printed, "Received")
                   /\ pc' = "raw_input"
              ELSE Raised(r.status) /\ UNCHANGED command
    /\ UNCHANGED <<timings, s, outf, buttons, catalogue>>
    /\ UNCHANGED locks

\* Ctrl+C while collect_button waits for the remote, decodes, or waits for
\* the name; main closes the catalogue file.
KeyboardInterrupt ==
    /\ pc \in {"get_timings", "from_timings", "raw_input"}
    /\ calls' = Append(calls, Call("KeyboardInterrupt", <<>>,
                                   "KeyboardInterrupt", NoCommand))
    /\ IF pc = "raw_input" THEN pc' = "done" /\ UNCHANGED printed
       ELSE Raised("KeyboardInterrupt")
    /\ UNCHANGED <<timings, s, command, ret, outf, buttons, catalogue>>
    /\ UNCHANGED locks

\* A line of the catalogue file: "%s: %s" % (name, command), and a newline.
catalogue_line(name, c) == name \o <<":", " ">> \o IRCommand_str(c) \o <<"\n">>

\* The name is typed; collect_button returns and main writes the entry.
RawInput(name) ==
    /\ LET button_name == strip(name)
       IN  /\ outf' = outf \o catalogue_line(button_name, command)
           /\ buttons' = Append(buttons, [name |-> button_name,
                                          command |-> command])
    /\ pc' = "collect_button"
    /\ UNCHANGED <<timings, s, command, ret, calls, printed, catalogue>>
    /\ UNCHANGED locks

-----------------------------------------------------------------------------
(* get_timings.py: loading a catalogue and expanding one of its buttons *)

\* str.split(sep, 1): split at the first sep, if there is one.
split_first(str, sep) ==
    IF \E i \in 1..Len(str) : str[i] = sep
    THEN LET i == CHOOSE i \in 1..Len(str) :
                      str[i] = sep /\ \A j \in 1..(i - 1) : str[j] # sep
         IN  <<SubSeq(str, 1, i - 1), SubSeq(str, i + 1, Len(str))>>
    ELSE <<str>>

\* "for line in f": the lines of the file, each with its newline.
RECURSIVE file_lines(_)
file_lines(text) ==
    IF text = <<>> THEN <<>>
    ELSE LET line == split_first(text, "\n")[1]
             end == IF Len(line) < Len(text) THEN Len(line) + 1 ELSE Len(text)
         IN  <<SubSeq(text, 1, end)>>
                 \o file_lines(SubSeq(text, end + 1, Len(text)))

\* buttons[name] = cmd on a dict
dict_set(d, name, cmd) ==
    [n \in DOMAIN d \cup {name} |-> IF n = name THEN cmd ELSE d[n]]

\* The loop of main over the lines of the file; an exception ends it.
RECURSIVE load_buttons(_, _, _)
load_buttons(lines, i, d) ==
    IF i > Len(lines) THEN [status |-> "ok", buttons |-> d]
    ELSE LET parts == split_first(lines[i], ":")
             r == IRCommand_from_string(parts[2])
         IN  IF Len(parts) # 2 THEN [status |-> "ValueError", buttons |-> d]
             ELSE IF r.status # "ok" THEN [status |-> r.status, buttons |-> d]
             ELSE load_buttons(lines, i + 1, dict_set(d, parts[1], r.cmd))

\* The buttons asked for on the command line.
ButtonArgs == {<<"a">>, <<"b">>, <<"a", ":", "b">>}

\* main of get_timings.py, run on the catalogue after the capture program
\* has closed it: the timings of the button, if it is there.
GetTimingsMain(button) ==
    /\ LET r == load_buttons(file_lines(outf), 1, <<>>)
       IN  /\ catalogue' = r
           /\ timings' = IF r.status = "ok" /\ button \in DOMAIN r.buttons
                         THEN IRCommand_timings(r.buttons[button]).ret
                         ELSE timings
    /\ pc' = "loaded"
    /\ UNCHANGED <<s, command, ret, calls, printed, outf, buttons>>
    /\ UNCHANGED locks

\* The capture program from the first collect_button to Ctrl+C, and then a
\* run of get_timings.py on the catalogue it wrote.
InitCapture ==
    /\ timings = <<>>
    /\ s = <<>>
    /\ command = NoCommand
    /\ ret = Idle
    /\ calls = <<>>
    /\ pc = "collect_button"
    /\ printed = <<>>
    /\ outf = <<>>
    /\ buttons = <<>>
    /\ catalogue = [status |-> "none", buttons |-> <<>>]
    /\ InitLocks

NextCapture ==
    \/ CollectButton
    \/ /\ pc = "get_timings"
       /\ Len(calls) < MaxCalls
       /\ \E line \in SerialLines : ReadPulses(line)
    \/ FromTimings
    \/ KeyboardInterrupt
    \/ pc = "raw_input" /\ \E name \in RawNames : RawInput(name)
    \/ pc = "done" /\ \E button \in ButtonArgs : GetTimingsMain(button)

SpecCapture == InitCapture /\ [][NextCapture]_vars

-----------------------------------------------------------------------------
(* serial_monitor.py: class Lock, as used by main and SerialPort *)

\* Each process runs main once, as a user who is not root; its PID is its
\* index.  A step is one system call, with the Python around it.

\* Lock.taken: os.path.exists(self.path)
taken == lockfile.exists

\* Lock.getpid: None (0) when the lock is not taken; int() of an empty file
\* raises ValueError.
getpid ==
    IF ~taken THEN [status |-> "ok", pid |-> 0]
    ELSE IF lockfile.pid = 0 THEN [status |-> "ValueError", pid |-> 0]
    ELSE [status |-> "ok", pid |-> lockfile.pid]

At(p, where) == proc[p].pc = where

Goto(p, where) == proc' = [proc EXCEPT ![p].pc = where]

\* An exception that nothing catches ends the process.
Crash(p) == Goto(p, "crashed")

\* main: "if serial_port.lock.taken()"; the lock is taken next if it is free
MainTaken(p) ==
    /\ At(p, "main")
    /\ IF taken THEN Goto(p, "choose_kill_locker") ELSE Goto(p, "take")
    /\ UNCHANGED lockfile
    /\ UNCHANGED <<timings, s, command, ret>>
    /\ UNCHANGED env

\* choose_kill_locker: the user answers no, and main starts over
ChooseNo(p) ==
    /\ At(p, "choose_kill_locker")
    /\ Goto(p, "main")
    /\ UNCHANGED lockfile
    /\ UNCHANGED <<timings, s, command, ret>>
    /\ UNCHANGED env

\* kill_holder, up to the assertion: "pid = self.getpid()"
KillHolderGetpid(p) ==
    /\ At(p, "choose_kill_locker")
    /\ LET r == getpid
       IN  IF r.status # "ok" THEN Crash(p)
           ELSE IF r.pid = 0 THEN Goto(p, "take")
           ELSE IF asserts_enabled /\ r.pid = p THEN Crash(p)
           ELSE proc' = [proc EXCEPT ![p].pc = "kill", ![p].pid = r.pid]
    /\ UNCHANGED lockfile
    /\ UNCHANGED <<timings, s, command, ret>>
    /\ UNCHANGED env

Running(q) == proc[q].pc \notin {"crashed", "killed", "exited"}

\* kill_holder: os.kill(pid, signal.SIGTERM); no handler is installed, so a
\* running holder ends there; ESRCH is ignored.
KillHolderKill(p) ==
    /\ At(p, "kill")
    /\ proc' = [q \in Procs |->
                   IF q = p THEN [proc[q] EXCEPT !.pc = "remove"]
                   ELSE IF q = proc[p].pid /\ Running(q)
                   THEN [proc[q] EXCEPT !.pc = "killed"]
                   ELSE proc[q]]
    /\ UNCHANGED lockfile
    /\ UNCHANGED <<timings, s, command, ret>>
    /\ UNCHANGED env

\* kill_holder: os.remove(self.path), ENOENT ignored; then main goes on to
\* take the lock
KillHolderRemove(p) ==
    /\ At(p, "remove")
    /\ lockfile' = NoFile(lockfile.ino)
    /\ Goto(p, "take")
    /\ UNCHANGED <<timings, s, command, ret>>
    /\ UNCHANGED env

\* take: "assert not self.taken()"
TakeAssert(p) ==
    /\ At(p, "take")
    /\ IF asserts_enabled /\ taken THEN Crash(p) ELSE Goto(p, "take_file")
    /\ UNCHANGED lockfile
    /\ UNCHANGED <<timings, s, command, ret>>
    /\ UNCHANGED env

\* Whether file(path, "w") may create or truncate the file.
file_w_allowed(f) == ~f.exists \/ f.mode = "rw"

\* take: file(self.path, "w") creates the file or truncates it; a file made
\* read-only by chmod cannot be opened for writing.
TakeFile(p) ==
    /\ At(p, "take_file")
    /\ IF ~file_w_allowed(lockfile)
       THEN Crash(p) /\ UNCHANGED lockfile
       ELSE LET ino == IF taken THEN lockfile.ino ELSE lockfile.ino + 1
            IN  /\ lockfile' = [exists |-> TRUE, pid |-> 0,
                                mode |-> lockfile.mode, ino |-> ino]
                /\ proc' = [proc EXCEPT ![p].pc = "take_print", ![p].fd = ino]
    /\ UNCHANGED <<timings, s, command, ret>>
    /\ UNCHANGED env

\* take: "print >>f, os.getpid()" and f.close(): the PID reaches the file
\* that was opened, which may no longer be the one at the path.
TakePrint(p) ==
    /\ At(p, "take_print")
    /\ lockfile' = IF taken /\ lockfile.ino = proc[p].fd
                   THEN [lockfile EXCEPT !.pid = p]
                   ELSE lockfile
    /\ Goto(p, "take_chmod")
    /\ UNCHANGED <<timings, s, command, ret>>
    /\ UNCHANGED env

\* take: os.chmod(self.path, 0444); take has returned after it
TakeChmod(p) ==
    /\ At(p, "take_chmod")
    /\ IF ~taken THEN Crash(p) /\ UNCHANGED lockfile
       ELSE /\ lockfile' = [lockfile EXCEPT !.mode = "ro"]
            /\ Goto(p, "holding")
    /\ UNCHANGED <<timings, s, command, ret>>
    /\ UNCHANGED env

\* release, called by SerialPort.close when the read loop of main ends:
\* "assert self.getpid() == os.getpid()"
ReleaseAssert(p) ==
    /\ At(p, "holding")
    /\ LET r == getpid
       IN  IF r.status # "ok" THEN Crash(p)
           ELSE IF asserts_enabled /\ r.pid # p THEN Crash(p)
           ELSE Goto(p, "release_remove")
    /\ UNCHANGED lockfile
    /\ UNCHANGED <<timings, s, command, ret>>
    /\ UNCHANGED env

\* release: os.remove(self.path); main ends
ReleaseRemove(p) ==
    /\ At(p, "release_remove")
    /\ IF ~taken THEN Crash(p) /\ UNCHANGED lockfile
       ELSE /\ lockfile' = NoFile(lockfile.ino)
            /\ Goto(p, "exited")
    /\ UNCHANGED <<timings, s, command, ret>>
    /\ UNCHANGED env

\* Processes of serial_monitor.py on one serial port.
InitLock ==
    /\ timings = <<>>
    /\ s = <<>>
    /\ command = NoCommand
    /\ ret = Idle
    /\ InitEnv
    /\ InitLocks

NextLock ==
    \/ \E p \in Procs : MainTaken(p)
    \/ \E p \in Procs : ChooseNo(p)
    \/ \E p \in Procs : KillHolderGetpid(p)
    \/ \E p \in Procs : KillHolderKill(p)
    \/ \E p \in Procs : KillHolderRemove(p)
    \/ \E p \in Procs : TakeAssert(p)
    \/ \E p \in Procs : TakeFile(p)
    \/ \E p \in Procs : TakePrint(p)
    \/ \E p \in Procs : TakeChmod(p)
    \/ \E p \in Procs : ReleaseAssert(p)
    \/ \E p \in Procs : ReleaseRemove(p)

SpecLock == InitLock /\ [][NextLock]_vars

-----------------------------------------------------------------------------
(* Properties: runs of a bitstream, stated without the loop of timings() *)

RunStarts(bits) == {i \in 1..Len(bits) : i = 1 \/ bits[i] # bits[i - 1]}

RunEnd(bits, i) ==
    CHOOSE j \in i..Len(bits) :
        /\ \A k \in i..j : bits[k] = bits[i]
        /\ j = Len(bits) \/ bits[j + 1] # bits[i]

RunLength(bits, i) == RunEnd(bits, i) - i + 1

RunLengths(bits) == {RunLength(bits, i) : i \in RunStarts(bits)}

NthRunStart(bits, n) ==
    CHOOSE i \in RunStarts(bits) :
        Cardinality({j \in RunStarts(bits) : j <= i}) = n

NumRuns(bits) == Cardinality(RunStarts(bits))

ExpectedTimings(c) ==
    [n \in 1..NumRuns(c.bits) + 1 |->
        IF n <= NumRuns(c.bits)
        THEN RunLength(c.bits, NthRunStart(c.bits, n)) * c.fp
        ELSE c.interval]

Decoded == ret.op = "from_timings" /\ command # NoCommand

SameBitsAndPeriod ==
    /\ ret.status = "ok"
    /\ ret.cmd.bits = command.bits
    /\ ret.cmd.fp = command.fp

\* The commands whose timings decode back to them.
RoundTrippable(c) ==
    /\ c.fp > PulseGroupThreshold
    /\ c.interval > MaxPulseLength
    /\ \A k \in RunLengths(c.bits) : k * c.fp <= MaxPulseLength
    /\ 1 \in RunLengths(c.bits)
    /\ Cardinality(RunLengths(c.bits)) <= (NumRuns(c.bits) + 1) \div 5

\* C1 as stated: for any valid command c with repeats = 1,
\* from_timings(c.timings()) succeeds and has c's bits and fp.
C1_RoundTripAny == Decoded /\ command.repeats = 1 => SameBitsAndPeriod

\* C1, amended: from_timings(c.timings()) succeeds and has c's bits and fp
\* for every command c that has fp > PulseGroupThreshold, an interval >
\* MaxPulseLength, no run longer than MaxPulseLength, a run of one bit, and
\* at most (number of runs + 1) div 5 distinct run lengths.
C1_RoundTrip == Decoded /\ RoundTrippable(command) => SameBitsAndPeriod

C1_Witness ==
    /\ Decoded
    /\ RoundTrippable(command)
    /\ Cardinality(RunLengths(command.bits)) = 2
    /\ ret.status = "ok"

\* C2: parsing the text form of a command gives back a command with the
\* same fp, bits, interval and repeats.
C2_TextRoundTrip ==
    ret.op = "from_string" /\ command # NoCommand =>
        /\ ret.status = "ok"
        /\ ret.cmd.fp = command.fp
        /\ ret.cmd.bits = command.bits
        /\ ret.cmd.interval = command.interval
        /\ ret.cmd.repeats = command.repeats

C2_Witness ==
    /\ ret.op = "from_string"
    /\ command # NoCommand
    /\ command.repeats = 2
    /\ command.interval = 20000
    /\ Len(command.bits) >= 5
    /\ \E i \in 1..Len(command.bits) : command.bits[i] = 0

ExampleCommand ==
    [fp |-> 900, bits |-> <<1, 0, 1, 0, 1>>, interval |-> 20000, repeats |-> 2]

ExampleBare ==
    <<"9", "0", "0", "/", "1", "0", "1", "0", "1", "/",
      "2", "0", "0", "0", "0", "x", "2">>

ExampleWrapped ==
    <<"<", "I", "R", "C", "o", "m", "m", "a", "n", "d", ":", " ",
      "9", "0", "0", "/", "1", "0", "1", "0", "1", "/",
      "2", "0", "0", "0", "0", " ", "x", " ", "2", ">">>

\* C3 as stated: the text of a command is "<fp>/<bits>/<interval>x<repeats>",
\* and from_string of "900/10101/20000x2" returns the command with those
\* fields.
C3_BareForm ==
    /\ ret.op = "str" => s = BareText(command)
    /\ ret.op = "from_string" /\ s = ExampleBare =>
           ret.status = "ok" /\ ret.cmd = ExampleCommand

\* C3, amended: the text of a command is
\* "<IRCommand: <fp>/<bits>/<interval> x <repeats>>"; from_string of such a
\* text, e.g. "<IRCommand: 900/10101/20000 x 2>", returns the command with
\* those fields, and from_string of the text without the "<IRCommand: " ">"
\* wrapper fails.
C3_WrappedForm ==
    /\ ret.op = "str" =>
           s = Wrapper \o format_int(command.fp) \o <<"/">>
                   \o [i \in 1..Len(command.bits) |-> Digits[command.bits[i] + 1]]
                   \o <<"/">> \o format_int(command.interval) \o <<" ", "x", " ">>
                   \o format_int(command.repeats) \o <<">">>
    /\ ret.op = "str" /\ command = ExampleCommand => s = ExampleWrapped
    /\ ret.op = "from_string" /\ s = ExampleWrapped =>
           ret.status = "ok" /\ ret.cmd = ExampleCommand
    /\ ret.op = "from_string" /\ (\E c \in TextCommands : s = BareText(c)) =>
           ret.status = "AssertionError" /\ ret.cmd = NoCommand

C3_Witness ==
    /\ ret.op = "from_string"
    /\ s = ExampleWrapped
    /\ ret.cmd = ExampleCommand

-----------------------------------------------------------------------------
(* Properties of decoding a capture *)

Scenario == <<900, 900, 900, 1800, 900, 20000, 900, 900, 900, 1800, 900>>

\* The bursts of a capture: maximal runs of pulses not longer than
\* MaxPulseLength.
NumBursts(ts) ==
    Cardinality({i \in 1..Len(ts) :
                    ts[i] <= MaxPulseLength
                    /\ (i = 1 \/ ts[i - 1] > MaxPulseLength)})

\* C4: from_timings succeeds only if every burst decodes to the bitstream
\* of the first one, and then bits is that bitstream and repeats is the
\* number of bursts; it fails when a later bitstream differs; the capture
\* [900,900,900,1800,900,20000,900,900,900,1800,900] decodes to fp = 900,
\* interval = 20000, repeats = 2.
C4_RepeatConsistency ==
    ret.op = "from_timings" =>
        LET found == find_fundamental_period(timings)
            bin == binarify_signal(found.fp, timings)
        IN  /\ ret.status = "ok" =>
                /\ found.status = "ok" /\ bin.status = "ok"
                /\ \A k \in 1..Len(bin.ret) : bin.ret[k] = ret.cmd.bits
                /\ ret.cmd.repeats = Len(bin.ret)
                /\ ret.cmd.repeats = NumBursts(timings)
            /\ found.status = "ok" /\ bin.status = "ok"
               /\ (\E k \in 2..Len(bin.ret) : bin.ret[k] # bin.ret[1]) =>
                   ret.status = "repeat" /\ ret.cmd = NoCommand
            /\ timings = Scenario =>
                /\ ret.status = "ok"
                /\ ret.cmd = [fp |-> 900, bits |-> <<1, 0, 1, 0, 0, 1>>,
                              interval |-> 20000, repeats |-> 2]

C4_Witness ==
    /\ ret.op = "from_timings"
    /\ timings = Scenario
    /\ ret.status = "ok"
    /\ ret.cmd.repeats = 2

C4_WitnessRepeat ==
    /\ ret.op = "from_timings"
    /\ ret.status = "repeat"
    /\ NumBursts(timings) = 3

-----------------------------------------------------------------------------
(* Properties of the binarizer *)

Binarified == ret.op = "binarify_signal"

\* A capture made of the pulse t alone, before a gap, or on both sides of one.
PulseCapture(t) ==
    /\ timings # <<>>
    /\ Len(timings) <= 3
    /\ timings[1] = t
    /\ t <= MaxPulseLength
    /\ Len(timings) >= 2 => timings[2] > MaxPulseLength
    /\ Len(timings) = 3 => timings[3] = t

CountedAs(m) ==
    /\ ret.status = "ok"
    /\ \A k \in 1..Len(ret.bitstreams) : ret.bitstreams[k] = [i \in 1..m |-> 1]

Rejected == ret.status \in {"tol_low", "tol_high"}

ToleranceBoundary(fp, m) ==
    /\ PulseCapture(m * fp + PulseGroupThreshold) => CountedAs(m)
    /\ PulseCapture(m * fp - PulseGroupThreshold) => CountedAs(m)
    /\ PulseCapture(m * fp + (PulseGroupThreshold + 1)) => Rejected
    /\ PulseCapture(m * fp - (PulseGroupThreshold + 1)) => Rejected

\* C5 as stated: for every fp and every m >= 1, a pulse of m*fp +/-
\* PulseGroupThreshold is accepted and counted as m periods, and a pulse of
\* m*fp +/- (PulseGroupThreshold + 1) is rejected.
C5_ToleranceAnyPeriod ==
    Binarified => \A m \in 1..MaxMult : ToleranceBoundary(ret.fp, m)

\* C5, amended: the same for every fp >= 2 * PulseGroupThreshold + 2 (and
\* pulses not longer than MaxPulseLength); for a smaller fp the pulse is
\* counted as the neighbouring multiple.
C5_ToleranceBoundary ==
    Binarified /\ ret.fp >= 2 * PulseGroupThreshold + 2 =>
        \A m \in 1..MaxMult : ToleranceBoundary(ret.fp, m)

C5_Witness ==
    /\ Binarified
    /\ ret.fp = 2 * PulseGroupThreshold + 2
    /\ PulseCapture(2 * ret.fp + PulseGroupThreshold)
    /\ Len(timings) = 3
    /\ CountedAs(2)

C5_WitnessRejected ==
    /\ Binarified
    /\ ret.fp = 2 * PulseGroupThreshold + 2
    /\ PulseCapture(ret.fp - (PulseGroupThreshold + 1))
    /\ Rejected

\* The segments of a capture: <<a, b>> with a and b consecutive among 0, the
\* positions of the gaps and Len + 1; the segment is the pulses between.
GapPositions == {i \in 1..Len(timings) : timings[i] > MaxPulseLength}

Cuts == {0, Len(timings) + 1} \cup GapPositions

Segments ==
    {seg \in Cuts \X Cuts :
        seg[1] < seg[2] /\ ~\E c \in Cuts : seg[1] < c /\ c < seg[2]}

\* A pulse t yields round(t / fp) bits: none when t < fp / 2.
NoBits(seg) == \A i \in (seg[1] + 1)..(seg[2] - 1) : 2 * timings[i] < ret.fp

EmptyFailure == ret.status \in {"empty_bitstream", "no_bitstream"}

NonEmptyReturned ==
    ret.status = "ok" =>
        /\ ret.bitstreams # <<>>
        /\ \A k \in 1..Len(ret.bitstreams) : ret.bitstreams[k] # <<>>

\* C7 as stated: every returned bitstream is non-empty, and binarify_signal
\* fails when any segment, the one after the last gap included, yields no
\* bits.
C7_AnySegment ==
    Binarified /\ ~Rejected =>
        /\ NonEmptyReturned
        /\ (\E seg \in Segments : NoBits(seg)) => EmptyFailure

\* C7, amended: every returned bitstream is non-empty; binarify_signal fails
\* when a segment that ends at a gap yields no bits, or when no segment
\* yields a bit; a segment after the last gap that yields no bits is
\* dropped, and the call returns the bitstreams before it.
C7_NonEmpty ==
    Binarified /\ ~Rejected =>
        /\ NonEmptyReturned
        /\ (\E seg \in Segments : seg[2] \in GapPositions /\ NoBits(seg))
               => EmptyFailure
        /\ (\A seg \in Segments : NoBits(seg)) => EmptyFailure
        /\ (/\ GapPositions # {}
            /\ \A seg \in Segments :
                   NoBits(seg) <=> seg[2] = Len(timings) + 1) =>
               ret.status = "ok"
               /\ Len(ret.bitstreams) = Cardinality(GapPositions)

C7_Witness ==
    /\ Binarified
    /\ ret.status = "ok"
    /\ Cardinality(GapPositions) = 1
    /\ \E seg \in Segments :
           seg[2] = Len(timings) + 1 /\ seg[1] + 1 < seg[2] /\ NoBits(seg)

C7_WitnessFailure ==
    /\ Binarified
    /\ ret.status = "empty_bitstream"
    /\ \E seg \in Segments :
           seg[2] \in GapPositions /\ seg[1] + 1 < seg[2] /\ NoBits(seg)

-----------------------------------------------------------------------------
(* Properties of the IRCommand class *)

StartsAndEndsWithOne(bits) ==
    bits # <<>> /\ bits[1] = 1 /\ bits[Len(bits)] = 1

\* C6: every command constructed, by the constructor, from_timings or
\* from_string, has a bitstream that starts and ends with 1; construction
\* from any other bitstream fails and yields no command.
C6_BoundaryBits ==
    /\ command # NoCommand => StartsAndEndsWithOne(command.bits)
    /\ ret.cmd # NoCommand => StartsAndEndsWithOne(ret.cmd.bits)
    /\ ret.status = "ok" /\ ret.op \in {"init", "from_timings", "from_string"}
           => ret.cmd # NoCommand
    /\ ret.op = "init" /\ ~StartsAndEndsWithOne(ret.bits) =>
           /\ ret.status \in {"boundary", "IndexError"}
           /\ ret.cmd = NoCommand
           /\ command = NoCommand

C6_Witness ==
    /\ ret.op = "init"
    /\ Len(ret.bits) = 3
    /\ ret.bits[1] = 1
    /\ ret.bits[3] = 0
    /\ ret.status = "boundary"

\* C8: c.timings() is the lengths of the maximal runs of equal bits of
\* c.bits, in order, each times c.fp, then c.interval: number of runs + 1
\* entries, the first for a run of 1s, those before the last summing to
\* len(c.bits) * c.fp.
C8_TimingsExpansion ==
    ret.op = "timings" =>
        /\ ret.status = "ok"
        /\ timings = ExpectedTimings(command)
        /\ Len(timings) = NumRuns(command.bits) + 1
        /\ timings[Len(timings)] = command.interval
        /\ command.bits[1] = 1
        /\ sum(SubSeq(timings, 1, Len(timings) - 1))
               = Len(command.bits) * command.fp

C8_Witness ==
    /\ ret.op = "timings"
    /\ command.bits = <<1, 1, 0, 0, 0, 1>>
    /\ command.fp = 900
    /\ timings = <<1800, 2700, 900, 20000>>

-----------------------------------------------------------------------------
(* Properties of the period estimator *)

Estimated == ret.op = "find_fundamental_period"

\* The groups of a capture: a pulse starts a group when it is more than
\* PulseGroupThreshold longer than the pulse that started the group before.
RECURSIVE CountGroups(_, _, _)
CountGroups(ps, i, f) ==
    IF i > Len(ps) \/ ps[i] > MaxPulseLength THEN 0
    ELSE IF f >= 0 /\ ps[i] <= f + PulseGroupThreshold
    THEN CountGroups(ps, i + 1, f)
    ELSE 1 + CountGroups(ps, i + 1, ps[i])

NumGroups(ts) == CountGroups(sorted(ts), 1, -1)

\* C9: find_fundamental_period fails with InsufficientData exactly when the
\* groups outnumber len(timings) / 5, fails with ToleranceViolation when a
\* group leaves its band, and otherwise returns a positive fp; it has no
\* other outcome.
C9_FailureModes ==
    Estimated =>
        /\ ret.status \in {"ok", "ratio", "too_low", "too_high"}
        /\ ret.status = "ratio" <=> NumGroups(timings) > Len(timings) \div 5
        /\ ret.status = "ok" => ret.fp > 0

\* What holds of the outcomes instead.
C9_Outcomes ==
    Estimated =>
        /\ ret.status \in {"ok", "ratio", "too_low", "too_high", "IndexError"}
        /\ ret.status = "IndexError" <=>
               \/ \A i \in 1..Len(timings) : timings[i] > MaxPulseLength
               \/ \E i \in 1..Len(timings) : timings[i] <= PulseGroupThreshold
        /\ ret.status = "ratio" <=>
               /\ ret.status # "IndexError"
               /\ NumGroups(timings) > Len(timings) \div 5
        /\ ret.status = "ok" => ret.fp > PulseGroupThreshold

C9_WitnessIndexError ==
    /\ Estimated
    /\ ret.status = "IndexError"
    /\ Len(timings) = 5
    /\ \E i \in 1..5 : timings[i] = 900

\* The distance of t to the nearest multiple of fp.
Distance(t, fp) ==
    LET below == t - (t \div fp) * fp
        above == ((t \div fp) + 1) * fp - t
    IN  IF below <= above THEN below ELSE above

\* C10: when from_timings succeeds with period fp, every timing not longer
\* than MaxPulseLength is within PulseGroupThreshold of round(t/fp) * fp.
C10_PeriodInvariant ==
    ret.op = "from_timings" /\ ret.status = "ok" =>
        \A i \in 1..Len(timings) :
            timings[i] <= MaxPulseLength =>
                Distance(timings[i], ret.cmd.fp) <= PulseGroupThreshold

C10_Witness ==
    /\ ret.op = "from_timings"
    /\ ret.status = "ok"
    /\ \E i \in 1..Len(timings) :
           /\ timings[i] <= MaxPulseLength
           /\ Distance(timings[i], ret.cmd.fp) > PulseGroupThreshold \div 2

-----------------------------------------------------------------------------
(* Properties of the calls made by the capture program *)

DecodeCalls == {i \in 1..Len(calls) : calls[i].op = "from_timings"}

FailedDecodeCalls == {i \in DecodeCalls : calls[i].status # "ok"}

SameOutcome(i, j) ==
    calls[i].status = calls[j].status /\ calls[i].cmd = calls[j].cmd

-----------------------------------------------------------------------------
(* Properties of the catalogue *)

Loaded == pc = "loaded"

\* The last entry registered under the name of entry k.
LastWritten(k) ==
    CHOOSE l \in 1..Len(buttons) :
        /\ buttons[l].name = buttons[k].name
        /\ \A n \in (l + 1)..Len(buttons) : buttons[n].name # buttons[k].name

RoundTripped(k) ==
    /\ buttons[k].name \in DOMAIN catalogue.buttons
    /\ catalogue.buttons[buttons[k].name] = buttons[LastWritten(k)].command

HasColon(name) == \E i \in 1..Len(name) : name[i] = ":"

\* C12 as stated: after any sequence of (name, command) entries is written
\* as lines "<name>: <command text>", loading the file maps every written
\* name to the last command written for it.
C12_CatalogueRoundTrip ==
    Loaded =>
        /\ catalogue.status = "ok"
        /\ \A k \in 1..Len(buttons) : RoundTripped(k)

\* What the code does: the round trip holds when no written name has a
\* colon in it, and loading fails when one has.
C12_ColonFreeRoundTrip ==
    Loaded =>
        IF \E k \in 1..Len(buttons) : HasColon(buttons[k].name)
        THEN catalogue.status = "AssertionError"
        ELSE /\ catalogue.status = "ok"
             /\ \A k \in 1..Len(buttons) : RoundTripped(k)
             /\ DOMAIN catalogue.buttons =
                    {buttons[k].name : k \in 1..Len(buttons)}

\* A catalogue with a name that has a colon in it fails to load.
C12_WitnessColon ==
    /\ Loaded
    /\ Len(buttons) = 1
    /\ HasColon(buttons[1].name)
    /\ catalogue.status = "AssertionError"

\* A catalogue with the same name written twice, for different commands.
C12_WitnessLastWins ==
    /\ Loaded
    /\ catalogue.status = "ok"
    /\ \E k \in 1..Len(buttons) :
           /\ LastWritten(k) # k
           /\ buttons[LastWritten(k)].command # buttons[k].command
           /\ RoundTripped(k)

-----------------------------------------------------------------------------
(* Properties of from_string on damaged text *)

Positions(str, ch) == {i \in 1..Len(str) : str[i] = ch}

\* A field that reads as a number: digits, with an optional sign, possibly
\* surrounded by whitespace.
Numeric(field) ==
    LET f == strip(field)
        ds == IF f # <<>> /\ f[1] \in {"+", "-"} THEN Tail(f) ELSE f
    IN  ds # <<>> /\ \A i \in 1..Len(ds) : is_digit(ds[i])

BitString(field) ==
    field # <<>> /\ \A i \in 1..Len(field) : is_digit(field[i])

Wrapped(str) ==
    /\ Len(str) > Len(Wrapper)
    /\ SubSeq(str, 1, Len(Wrapper)) = Wrapper
    /\ str[Len(str)] = ">"

\* The text has the structure "<IRCommand: fp/bits/interval x repeats>".
WellFormed(text) ==
    LET str == strip(text)
        body == SubSeq(str, Len(Wrapper) + 1, Len(str) - 1)
        slashes == Positions(body, "/")
        xs == Positions(body, "x")
        i == CHOOSE i \in slashes : \A n \in slashes : i <= n
        j == CHOOSE j \in slashes : \A n \in slashes : j >= n
        k == CHOOSE k \in xs : TRUE
    IN  /\ Wrapped(str)
        /\ Cardinality(slashes) = 2
        /\ Cardinality(xs) = 1
        /\ j < k
        /\ Numeric(SubSeq(body, 1, i - 1))
        /\ BitString(SubSeq(body, i + 1, j - 1))
        /\ Numeric(SubSeq(body, j + 1, k - 1))
        /\ Numeric(SubSeq(body, k + 1, Len(body)))

Parsed == ret.op = "from_string" /\ command = NoCommand

\* C13: from_string fails, and returns no command, for every text with a
\* structural mismatch: a missing or extra "/" or "x", a missing wrapper, or
\* a field (fp, bits, interval, repeats) that is no number.
C13_MalformedRejected ==
    Parsed /\ ~WellFormed(s) => ret.status # "ok" /\ ret.cmd = NoCommand

\* A line with one "/" too many is parsed.
C13_Witness ==
    /\ Parsed
    /\ Wrapped(strip(s))
    /\ Cardinality(Positions(s, "/")) = 3
    /\ Cardinality(Positions(s, "x")) = 1
    /\ ret.status = "ValueError"

-----------------------------------------------------------------------------
(* Properties of the retry loop of collect_button *)

OkDecodeCalls == DecodeCalls \ FailedDecodeCalls

FailedCalls ==
    {i \in 1..Len(calls) :
        calls[i].op \in {"read_pulses", "from_timings"} /\ calls[i].status # "ok"}

Interrupts == {i \in 1..Len(calls) : calls[i].op = "KeyboardInterrupt"}

NthOkDecode(n) ==
    CHOOSE i \in OkDecodeCalls :
        Cardinality({j \in OkDecodeCalls : j <= i}) = n

Reports == Positions(printed, "Please retry that button")

\* Every decode is of the capture fetched just before it.
FreshCaptures ==
    \A i \in DecodeCalls :
        /\ i > 1
        /\ calls[i - 1].op = "read_pulses"
        /\ calls[i - 1].status = "ok"
        /\ calls[i - 1].timings = calls[i].timings
        /\ calls[i].timings # <<>>

\* Every failure is reported, and followed by a fetch if by anything but
\* Ctrl+C.
FailuresReported ==
    /\ Cardinality(Reports) = Cardinality(FailedCalls)
    /\ \A i \in FailedCalls :
           i < Len(calls) =>
               calls[i + 1].op \in {"read_pulses", "KeyboardInterrupt"}
    /\ Len(calls) \in FailedCalls => pc = "get_timings"

\* collect_button has returned once per registered button, each time with
\* the command of the decode that succeeded, and is about to return exactly
\* when the last call is such a decode, not yet registered.
ReturnsFirstDecoded ==
    /\ \A k \in 1..Len(buttons) :
           /\ Cardinality(OkDecodeCalls) >= k
           /\ buttons[k].command = calls[NthOkDecode(k)].cmd
    /\ Cardinality(OkDecodeCalls) \in {Len(buttons), Len(buttons) + 1}
    /\ pc = "raw_input" <=>
           /\ Len(calls) \in OkDecodeCalls
           /\ Cardinality(OkDecodeCalls) = Len(buttons) + 1
    /\ pc = "raw_input" => command = calls[Len(calls)].cmd

\* Ctrl+C ends the program: nothing is called after it, nothing is reported
\* for it.
InterruptPropagates ==
    /\ \A i \in Interrupts : i = Len(calls) /\ pc \in {"done", "loaded"}
    /\ Positions(printed, "KeyboardInterrupt") = {}

\* C14: collect_button reports each failed decode and fetches a fresh
\* capture, never reuses a capture, and returns only with the command
\* decoded from the first capture that decodes; a KeyboardInterrupt is not
\* swallowed by the retry loop.
C14_RetryLoop ==
    /\ FreshCaptures
    /\ FailuresReported
    /\ ReturnsFirstDecoded
    /\ InterruptPropagates

\* A failed decode, a retry that succeeds and is named, and then Ctrl+C
\* while waiting for the next capture.
C14_Witness ==
    /\ \E i \in FailedDecodeCalls, j \in OkDecodeCalls : i < j
    /\ Len(buttons) = 1
    /\ Interrupts # {}
    /\ pc = "done"

-----------------------------------------------------------------------------
(* Properties of the period returned by find_fundamental_period *)

\* C15 as stated: find_fundamental_period returns only a period of at least
\* twice PulseGroupThreshold.
C15_MinimumPeriod ==
    Estimated /\ ret.status = "ok" => ret.fp >= 2 * PulseGroupThreshold

\* What the code does: the assertion on fp at line 88 never fails, and the
\* period returned is any above PulseGroupThreshold.
C15_AssertionNeverFails ==
    Estimated =>
        /\ ret.status # "fp_zero"
        /\ ret.status = "ok" => ret.fp > PulseGroupThreshold

\* Five pulses of 300 usec: the period returned is 300.
C15_Witness ==
    /\ Estimated
    /\ timings = <<300, 300, 300, 300, 300>>
    /\ ret.status = "ok"
    /\ ret.fp = 300

-----------------------------------------------------------------------------
(* Properties of the lock *)

\* The processes that have completed take() and not release().
Holders == {p \in Procs : proc[p].pc \in {"holding", "release_remove"}}

\* C16 as stated: under any interleaving of take, release and kill_holder,
\* at most one process has completed take() without a matching release(),
\* and while the lock file exists it holds the PID of that holder.
C16_MutualExclusion ==
    /\ Cardinality(Holders) <= 1
    /\ \A p \in Holders : taken => lockfile.pid = p

\* Two processes hold the lock at once; the file names one of them.
C16_Witness ==
    /\ Cardinality(Holders) = 2
    /\ taken
    /\ lockfile.pid \in Holders

====
